---- MODULE Spec2Model ----
(***************************************************************************)
(* The automaton-to-table compiler of xdp_prog_user.c: main() opens the    *)
(* pinned ids_inspect_map, builds a DFA with re2dfa() and hands it to      *)
(* dfa2map(), which enumerates the states, numbers them and writes one     *)
(* map entry per transition with bpf_map_update_elem().                    *)
(*                                                                         *)
(* Memory is a paged heap of struct DFA_state objects; a pointer is an     *)
(* address (a natural number), NULL is -1.  The pages only keep the cost   *)
(* of one field write independent of the number of states.                 *)
(***************************************************************************)
EXTENDS Integers, Sequences, FiniteSets, TLC

(***************************************************************************)
(* Bounds of the model.                                                    *)
(***************************************************************************)
\* addresses of a generated automaton
MaxStates == 2
\* transitions of a generated automaton, over all its states
MaxEdges == 2
\* writes the store rejects in one behaviour
MaxFaults == 1
\* calls of dfa2map on the same automaton in one behaviour
MaxRuns == 2
\* put attempts of one dfa2map call that a behaviour follows
MaxPuts == 4
\* states of one heap page
PageSize == 256

(***************************************************************************)
(* Program constants.                                                      *)
(***************************************************************************)
\* typedef __u8 ids_inspect_unit
UnitBits == 8
\* typedef __u16 ids_inspect_state; __u16 final_state
StateBits == 16
\* a call that passes BPF_NOEXIST
UpdateFlagsNoExist == 0 + 1
\* the flags argument of bpf_map_update_elem (0 is BPF_ANY)
UpdateFlags == 0

NULL == 0 - 1

\* values an ids_inspect_state can hold
IdSpace == 2 ^ StateBits

\* conversion of an int to __u16 / __u8 on assignment
ToU16(x) == x % (2 ^ StateBits)
ToU8(x) == x % (2 ^ UnitBits)

(***************************************************************************)
(* The heap of DFA_state objects.                                          *)
(***************************************************************************)
Paged(n, F(_)) ==
  [p \in 0..((n - 1) \div PageSize) |->
     [o \in 0..((IF (p + 1) * PageSize <= n THEN PageSize ELSE n - p * PageSize) - 1) |->
        F(p * PageSize + o)]]

\* *state
Deref(h, a) == h[a \div PageSize][a % PageSize]

\* the addresses of a heap
Addresses(h) == UNION {{p * PageSize + o : o \in DOMAIN h[p]} : p \in DOMAIN h}

\* the number of states of a heap
NumStates(h) ==
  LET last == Cardinality(DOMAIN h) - 1
  IN last * PageSize + Cardinality(DOMAIN h[last])

\* state->n_transitions
NTransitions(h, a) == Len(Deref(h, a).trans)

\* a write that lands on the accepting flag as well
SetStateIdClobbering(h, a, id) ==
  [h EXCEPT ![a \div PageSize][a % PageSize] = [@ EXCEPT !.state_id = id, !.is_acceptable = id]]

\* (*state)->state_id = id
SetStateId(h, a, id) == [h EXCEPT ![a \div PageSize][a % PageSize].state_id = id]

(***************************************************************************)
(* What re2dfa() can return: a graph of DFA_state objects and a pointer to *)
(* its start state.  state_id is whatever the library left in the field.   *)
(***************************************************************************)
Symbols == {120, 121}
InitialIds == {0, NULL}
EdgeSet == [from : 0..(MaxStates - 1), trans_char : Symbols, to : 0..(MaxStates - 1)]
EdgeLists == UNION {[1..k -> EdgeSet] : k \in 0..MaxEdges}

TransOf(edges, a) ==
  LET out == SelectSeq(edges, LAMBDA e : e.from = a)
  IN [i \in 1..Len(out) |-> [trans_char |-> out[i].trans_char, to |-> out[i].to]]

GraphOf(n, edges, acc, g) ==
  Paged(n, LAMBDA a : [is_acceptable |-> acc[a], state_id |-> g, trans |-> TransOf(edges, a)])

GeneratedDfas ==
  {[heap |-> GraphOf(MaxStates, edges, acc, g), start |-> MaxStates - 1] :
     edges \in EdgeLists, acc \in [0..(MaxStates - 1) -> {0, 1}], g \in InitialIds}

\* A (start) -x-> B (accepting), A -y-> C, B -z-> A; A at address 2, B at 0, C at 1
ExampleEdges ==
  << [from |-> 2, trans_char |-> 120, to |-> 0],
     [from |-> 2, trans_char |-> 121, to |-> 1],
     [from |-> 0, trans_char |-> 122, to |-> 2] >>
ExampleDfa(g) ==
  [heap |-> GraphOf(3, ExampleEdges, [a \in 0..2 |-> IF a = 0 THEN 1 ELSE 0], g), start |-> 2]

Re2dfaResults == GeneratedDfas \cup {ExampleDfa(g) : g \in InitialIds}

(***************************************************************************)
(* An automaton with IdSpace + 1 states: the start state has two           *)
(* transitions, the first into a subtree of IdSpace - 1 states (a hub with *)
(* fans below it), the second to a single last state.                      *)
(***************************************************************************)
WideStates == IdSpace + 1
WideHub == 1
WideLast == WideStates - 1
\* children of the hub: addresses 2 .. WideFans + 1; the leaves follow
WideFans == 2 ^ UnitBits - 1
WideLeafBase == WideFans + 2
WideLeaves == WideStates - 1 - WideLeafBase
WideTrans(a) ==
  IF a = 0 THEN << [trans_char |-> 120, to |-> WideHub], [trans_char |-> 121, to |-> WideLast] >>
  ELSE IF a = WideHub THEN [c \in 1..WideFans |-> [trans_char |-> c - 1, to |-> c + 1]]
  ELSE IF a < WideLeafBase
       THEN LET first == (a - 2) * 2 ^ UnitBits
                count == IF first + 2 ^ UnitBits <= WideLeaves THEN 2 ^ UnitBits
                         ELSE IF first < WideLeaves THEN WideLeaves - first ELSE 0
            IN [c \in 1..count |-> [trans_char |-> c - 1, to |-> WideLeafBase + first + c - 1]]
  ELSE << >>
WideDfa(g) ==
  [heap |-> Paged(WideStates, LAMBDA a : [is_acceptable |-> a % 2, state_id |-> g, trans |-> WideTrans(a)]),
   start |-> 0]

(***************************************************************************)
(* DFA_traverse: the reachability walk of the re2dfa library.  It appends  *)
(* to the list every state reachable from `state` that the list does not   *)
(* hold yet, depth first, in transition order.  visited is the list with   *)
(* one mark per address (seen[a] iff a is in the list).  The transitions   *)
(* lo..hi of `state` are walked in order.                                  *)
(***************************************************************************)
RECURSIVE DFA_traverse(_, _, _, _, _)
DFA_traverse(h, state, lo, hi, visited) ==
  IF lo > hi THEN visited
  ELSE IF lo = hi
  THEN LET to == Deref(h, state).trans[lo].to
       IN IF Deref(visited.seen, to) THEN visited
          ELSE DFA_traverse(h, to, 1, NTransitions(h, to),
                 [list |-> Append(visited.list, to),
                  seen |-> [visited.seen EXCEPT ![to \div PageSize][to % PageSize] = TRUE]])
  ELSE LET mid == (lo + hi) \div 2
           left == DFA_traverse(h, state, lo, mid, visited)
       IN IF Len(left.list) > 0 THEN DFA_traverse(h, state, mid + 1, hi, left) ELSE left

\* a generic_list: its length and its data, state = p_dat + i
EmptyList == [length |-> 0, p_dat |-> << >>]

GenericList(l) == [length |-> Len(l), p_dat |-> Paged(Len(l), LAMBDA k : l[k + 1])]

\* state_list.p_dat[i]
StateAt(list, i) == Deref(list.p_dat, i)

\* create_generic_list; generic_list_push_back(&state_list, &dfa); DFA_traverse(dfa, &state_list)
StateList(h, dfa) ==
  GenericList(DFA_traverse(h, dfa, 1, NTransitions(h, dfa),
                [list |-> << dfa >>,
                 seen |-> Paged(NumStates(h), LAMBDA a : a = dfa)]).list)

(***************************************************************************)
(* The ID loop of dfa2map: iterations i_state = lo .. hi - 1, in order.    *)
(***************************************************************************)
\* an ID loop that counts from 1
RECURSIVE AssignIdsFromOne(_, _, _, _)
AssignIdsFromOne(h, list, lo, hi) ==
  IF lo >= hi THEN h
  ELSE IF hi = lo + 1 THEN SetStateId(h, StateAt(list, lo), lo + 1)
  ELSE LET mid == (lo + hi) \div 2
           h1 == AssignIdsFromOne(h, list, lo, mid)
       IN IF DOMAIN h1 = DOMAIN h THEN AssignIdsFromOne(h1, list, mid, hi) ELSE h1

\* an ID loop that numbers only the state it is about to convert first
AssignIdsStartOnly(h, list, lo, hi) ==
  IF lo >= hi THEN h ELSE SetStateId(h, StateAt(list, lo), lo)

RECURSIVE AssignIds(_, _, _, _)
AssignIds(h, list, lo, hi) ==
  IF lo >= hi THEN h
  ELSE IF hi = lo + 1 THEN SetStateId(h, StateAt(list, lo), lo)
  ELSE LET mid == (lo + hi) \div 2
           h1 == AssignIds(h, list, lo, mid)
       IN IF DOMAIN h1 = DOMAIN h THEN AssignIds(h1, list, mid, hi) ELSE h1

(***************************************************************************)
(* The key and the value dfa2map builds for transition i_trans of *state.  *)
(***************************************************************************)
MapKey(h, state, i) ==
  [padding |-> 0,
   state |-> ToU16(Deref(h, state).state_id),
   unit |-> ToU8(Deref(h, state).trans[i + 1].trans_char)]

\* a value that takes the accepting flag of the source state
MapValueOfSource(h, state, i) ==
  LET next_state == Deref(h, state).trans[i + 1].to
  IN [state |-> ToU16(Deref(h, next_state).state_id),
      final_state |-> ToU16(Deref(h, state).is_acceptable)]

MapValue(h, state, i) ==
  LET next_state == Deref(h, state).trans[i + 1].to
  IN [state |-> ToU16(Deref(h, next_state).state_id),
      final_state |-> ToU16(Deref(h, next_state).is_acceptable)]

(***************************************************************************)
(* bpf_map_update_elem on the store behind the descriptor.  fault: the     *)
(* store rejects this write (map full, no memory, ...).  Flags 1 and 2 are *)
(* BPF_NOEXIST and BPF_EXIST.                                              *)
(***************************************************************************)
EmptyStore == << >>

BpfMapUpdateElem(st, key, value, flags, fault) ==
  IF \/ fault
     \/ flags = 1 /\ key \in DOMAIN st
     \/ flags = 2 /\ key \notin DOMAIN st
  THEN [ret |-> 0 - 1, store |-> st]
  ELSE [ret |-> 0,
        store |-> [k \in DOMAIN st \cup {key} |-> IF k = key THEN value ELSE st[k]]]

\* a dfa2map that gives up at the first failed write
AfterUpdateAborting(r) == IF r < 0 THEN "returned" ELSE "convert"

\* where dfa2map goes after bpf_map_update_elem returned r: a failure is only warned about
AfterUpdate(r) == "convert"

\* the value dfa2map returns
Dfa2mapResult == 0

\* main's exit status after dfa2map returned r
ExitStatus(r) == IF r < 0 THEN "EXIT_FAIL_RE2DFA" ELSE "EXIT_OK"

VARIABLES
  pc,          \* where main / dfa2map stands
  map_fd,      \* the descriptor main got from open_bpf_map_file
  dfa,         \* the start state re2dfa returned
  heap,        \* the DFA_state objects
  state_list,  \* dfa2map: the generic list of states
  n_state,     \* dfa2map: state_list.length
  i_state,     \* dfa2map: loop counter over the states
  i_trans,     \* dfa2map: loop counter over the transitions of a state
  map_key,     \* dfa2map: the key of the last put
  map_value,   \* dfa2map: the value of the last put
  ret,         \* what dfa2map returned
  status,      \* main's exit status
  store,       \* the contents of ids_inspect_map
  puts,        \* history: the puts of this dfa2map call, in order
  faults,      \* writes the store may still reject
  runs,        \* dfa2map calls started
  began_empty, \* history: this dfa2map call began on an empty store
  prev         \* history: how the previous dfa2map call began and ended

vars == << pc, map_fd, dfa, heap, state_list, n_state, i_state, i_trans,
           map_key, map_value, ret, status, store, puts, faults, runs, began_empty, prev >>

NoKey == [padding |-> 0, state |-> 0, unit |-> 0]
NoValue == [final_state |-> 0, state |-> 0]
NoPrev == [ran |-> FALSE, store |-> << >>, clean |-> FALSE, began_empty |-> FALSE]

Init ==
  /\ pc = "open_map"
  /\ map_fd = NULL
  /\ dfa = NULL
  /\ heap = << >>
  /\ state_list = EmptyList
  /\ n_state = 0
  /\ i_state = 0
  /\ i_trans = 0
  /\ map_key = NoKey
  /\ map_value = NoValue
  /\ ret = 0
  /\ status = "running"
  /\ store = EmptyStore
  /\ puts = << >>
  /\ faults = MaxFaults
  /\ runs = 0
  /\ began_empty = TRUE
  /\ prev = NoPrev

\* a check that takes only descriptor 0 for a failure
MapFdRejectedIfZero(fd) == fd = 0

\* main: if (map_fd < 0)
MapFdRejected(fd) == fd < 0

\* main: map_fd = open_bpf_map_file(...); if (map_fd < 0) return EXIT_FAIL_BPF
OpenMap ==
  /\ pc = "open_map"
  /\ \E fd \in {NULL, 3} :
       /\ map_fd' = fd
       /\ pc' = IF MapFdRejected(fd) THEN "exit" ELSE "re2dfa"
       /\ status' = IF MapFdRejected(fd) THEN "EXIT_FAIL_BPF" ELSE status
  /\ UNCHANGED << dfa, heap, state_list, n_state, i_state, i_trans, map_key, map_value,
                  ret, store, puts, faults, runs, began_empty, prev >>

\* main: dfa = re2dfa(re_string); if (!dfa) return EXIT_FAIL_RE2DFA; else dfa2map(dfa, map_fd)
Re2dfaReturns(r) ==
  /\ pc = "re2dfa"
  /\ dfa' = r.start
  /\ heap' = r.heap
  /\ pc' = IF r.start = NULL THEN "exit" ELSE "enumerate"
  /\ status' = IF r.start = NULL THEN "EXIT_FAIL_RE2DFA" ELSE status
  /\ runs' = IF r.start = NULL THEN runs ELSE runs + 1
  /\ UNCHANGED << map_fd, state_list, n_state, i_state, i_trans, map_key, map_value,
                  ret, store, puts, faults, began_empty, prev >>

Re2dfa ==
  /\ pc = "re2dfa"
  /\ \E r \in Re2dfaResults \cup {[heap |-> << >>, start |-> NULL]} : Re2dfaReturns(r)

\* re2dfa of an expression whose automaton has IdSpace + 1 states
Re2dfaWide ==
  /\ pc = "re2dfa"
  /\ \E g \in InitialIds : Re2dfaReturns(WideDfa(g))

\* dfa2map: "Save all state in DFA into a generic list"
Dfa2mapEnumerate ==
  /\ pc = "enumerate"
  /\ state_list' = StateList(heap, dfa)
  /\ pc' = "assign"
  /\ UNCHANGED << map_fd, dfa, heap, n_state, i_state, i_trans, map_key, map_value,
                  ret, status, store, puts, faults, runs, began_empty, prev >>

\* dfa2map: "Encode each state"
Dfa2mapAssign ==
  /\ pc = "assign"
  /\ n_state' = state_list.length
  /\ heap' = AssignIds(heap, state_list, 0, state_list.length)
  /\ i_state' = 0
  /\ i_trans' = 0
  /\ pc' = "convert"
  /\ UNCHANGED << map_fd, dfa, state_list, map_key, map_value,
                  ret, status, store, puts, faults, runs, began_empty, prev >>

\* dfa2map: one iteration of the inner loop of "Convert dfa to map"
Dfa2mapPut ==
  /\ pc = "convert"
  /\ i_state < n_state
  /\ i_trans < NTransitions(heap, StateAt(state_list, i_state))
  /\ Len(puts) < MaxPuts
  /\ \E fault \in (IF faults > 0 THEN BOOLEAN ELSE {FALSE}) :
       LET key == MapKey(heap, StateAt(state_list, i_state), i_trans)
           value == MapValue(heap, StateAt(state_list, i_state), i_trans)
           r == BpfMapUpdateElem(store, key, value, UpdateFlags, fault)
       IN /\ map_key' = key
          /\ map_value' = value
          /\ store' = r.store
          /\ puts' = Append(puts, [key |-> key, value |-> value, ret |-> r.ret, fault |-> fault])
          /\ faults' = IF fault THEN faults - 1 ELSE faults
          /\ pc' = AfterUpdate(r.ret)
          /\ i_trans' = i_trans + 1
  /\ UNCHANGED << map_fd, dfa, heap, state_list, n_state, i_state, ret, status, runs, began_empty, prev >>

\* dfa2map: the inner loop is over, i_state++, state++
Dfa2mapNextState ==
  /\ pc = "convert"
  /\ i_state < n_state
  /\ i_trans >= NTransitions(heap, StateAt(state_list, i_state))
  /\ i_state' = i_state + 1
  /\ i_trans' = 0
  /\ UNCHANGED << pc, map_fd, dfa, heap, state_list, n_state, map_key, map_value,
                  ret, status, store, puts, faults, runs, began_empty, prev >>

\* dfa2map: return 0
Dfa2mapReturn ==
  /\ pc = "convert"
  /\ i_state >= n_state
  /\ ret' = Dfa2mapResult
  /\ pc' = "returned"
  /\ UNCHANGED << map_fd, dfa, heap, state_list, n_state, i_state, i_trans, map_key, map_value,
                  status, store, puts, faults, runs, began_empty, prev >>

\* main: if (dfa2map(dfa, map_fd) < 0) return EXIT_FAIL_RE2DFA; ... return EXIT_OK
MainExit ==
  /\ pc = "returned"
  /\ status' = ExitStatus(ret)
  /\ pc' = "exit"
  /\ UNCHANGED << map_fd, dfa, heap, state_list, n_state, i_state, i_trans, map_key, map_value,
                  ret, store, puts, faults, runs, began_empty, prev >>

(***************************************************************************)
(* The same automaton is compiled again: dfa2map is called once more on    *)
(* the graph as the last call left it, against the store as it is or       *)
(* against an empty one.                                                   *)
(***************************************************************************)
Recompile ==
  /\ pc = "exit"
  /\ status = "EXIT_OK"
  /\ runs < MaxRuns
  /\ \E fresh \in BOOLEAN :
       /\ store' = IF fresh THEN EmptyStore ELSE store
       /\ began_empty' = fresh
  /\ prev' = [ran |-> TRUE,
              store |-> store,
              clean |-> \A k \in DOMAIN puts : puts[k].ret = 0,
              began_empty |-> began_empty]
  /\ runs' = runs + 1
  /\ pc' = "enumerate"
  /\ status' = "running"
  /\ state_list' = EmptyList
  /\ n_state' = 0
  /\ i_state' = 0
  /\ i_trans' = 0
  /\ map_key' = NoKey
  /\ map_value' = NoValue
  /\ ret' = 0
  /\ puts' = << >>
  /\ UNCHANGED << map_fd, dfa, heap, faults >>

Next ==
  \/ OpenMap
  \/ Re2dfa
  \/ Dfa2mapEnumerate
  \/ Dfa2mapAssign
  \/ Dfa2mapPut
  \/ Dfa2mapNextState
  \/ Dfa2mapReturn
  \/ MainExit
  \/ Recompile

NextWide == Next \/ Re2dfaWide

Spec == Init /\ [][Next]_vars

SpecWide == Init /\ [][NextWide]_vars

\* the steps of dfa2map are taken whenever one is possible: the program is sequential
FairSpec == Spec /\ WF_vars(Dfa2mapPut \/ Dfa2mapNextState \/ Dfa2mapReturn)

(***************************************************************************)
(* What the claims speak of.                                               *)
(***************************************************************************)
\* the place of a state in enumeration order, from 1
Position(a) == CHOOSE i \in 1..state_list.length : StateAt(state_list, i - 1) = a

\* id(s): the index of s in enumeration order, from 0
CanonicalId(a) == Position(a) - 1

\* the number of transitions of the first i enumerated states
RECURSIVE TransitionsBefore(_)
TransitionsBefore(i) ==
  IF i = 0 THEN 0 ELSE TransitionsBefore(i - 1) + NTransitions(heap, StateAt(state_list, i - 1))

TotalTransitions == TransitionsBefore(state_list.length)

\* the k-th transition in processing order, counted from enumerated state i on
RECURSIVE Locate(_, _)
Locate(i, k) ==
  IF k <= NTransitions(heap, StateAt(state_list, i - 1)) THEN [s |-> StateAt(state_list, i - 1), t |-> k]
  ELSE Locate(i + 1, k - NTransitions(heap, StateAt(state_list, i - 1)))

\* the put the claims expect for the k-th transition
ExpectedPut(k) ==
  LET at == Locate(1, k)
      tr == Deref(heap, at.s).trans[at.t]
  IN [key |-> [padding |-> 0, state |-> CanonicalId(at.s), unit |-> tr.trans_char],
      value |-> [state |-> CanonicalId(tr.to),
                 final_state |-> IF Deref(heap, tr.to).is_acceptable = 0 THEN 0 ELSE 1]]

\* the states that can be reached from those of S
RECURSIVE ReachableFrom(_, _)
ReachableFrom(h, S) ==
  LET T == S \cup UNION {{Deref(h, a).trans[i].to : i \in 1..NTransitions(h, a)} : a \in S}
  IN IF T = S THEN S ELSE ReachableFrom(h, T)

\* some enumerated state has two transitions on the same symbol
Nondeterministic ==
  \E n \in 1..state_list.length :
    LET trans == Deref(heap, StateAt(state_list, n - 1)).trans
    IN \E i, j \in 1..Len(trans) : i < j /\ trans[i].trans_char = trans[j].trans_char

\* the store rejected no write of this dfa2map call so far
NoFaultSoFar == \A k \in DOMAIN puts : ~puts[k].fault

\* the writes of this dfa2map call that failed
FailedPuts == {k \in DOMAIN puts : puts[k].ret < 0}

\* two heaps hold the same graph: the same states, accepting flags and transitions
SameGraph(h1, h2) ==
  /\ DOMAIN h1 = DOMAIN h2
  /\ \A p \in DOMAIN h1 :
       /\ DOMAIN h1[p] = DOMAIN h2[p]
       /\ \A o \in DOMAIN h1[p] :
            /\ h1[p][o].is_acceptable = h2[p][o].is_acceptable
            /\ h1[p][o].trans = h2[p][o].trans

C2_IdsAreDense ==
  pc \in {"convert", "returned"} =>
    /\ n_state = state_list.length
    /\ \A i \in 1..n_state : Deref(heap, StateAt(state_list, i - 1)).state_id = i - 1
    /\ {Deref(heap, StateAt(state_list, i - 1)).state_id : i \in 1..n_state} = 0..(n_state - 1)
    /\ Deref(heap, dfa).state_id = 0
    /\ {StateAt(state_list, i - 1) : i \in 1..n_state} = ReachableFrom(heap, {dfa})
    /\ Cardinality(ReachableFrom(heap, {dfa})) = n_state

\* three states are numbered, and the second has a transition back to the start state
C2_Witness ==
  /\ pc = "convert"
  /\ n_state = 3
  /\ \E i \in 1..NTransitions(heap, StateAt(state_list, 1)) :
       Deref(heap, StateAt(state_list, 1)).trans[i].to = dfa

(***************************************************************************)
(* C3: a failed write does not stop dfa2map: the step after a failed put   *)
(* is in the loop, at the next transition, with the store as it was; no    *)
(* step of a dfa2map call removes an entry; after a failed put the call    *)
(* returns; and at the return every transition was attempted and the entry *)
(* of every write that succeeded is in the store.                          *)
(***************************************************************************)
C3_FailedWriteNonFatal ==
  /\ [][(pc = "convert" /\ Len(puts') = Len(puts) + 1 /\ puts'[Len(puts')].ret < 0)
          => /\ pc' = "convert"
             /\ i_state' = i_state
             /\ i_trans' = i_trans + 1
             /\ store' = store]_vars
  /\ [][pc = "convert" => \A key \in DOMAIN store : key \in DOMAIN store']_vars
  /\ [](pc = "returned" =>
          /\ Len(puts) = TotalTransitions
          /\ \A k \in DOMAIN puts :
               puts[k].ret = 0 =>
                 /\ puts[k].key \in DOMAIN store
                 /\ \/ store[puts[k].key] = puts[k].value
                    \/ \E j \in DOMAIN puts :
                         j > k /\ puts[j].ret = 0 /\ puts[j].key = puts[k].key)
  /\ (pc = "convert" /\ FailedPuts # {}) ~> (pc = "returned")

\* the second of three writes failed: the first and the third entry are in the store
C3_Witness ==
  /\ pc = "returned"
  /\ Len(puts) = 3
  /\ FailedPuts = {2}
  /\ puts[1].key # puts[3].key
  /\ DOMAIN store = {puts[1].key, puts[3].key}
  /\ store[puts[1].key] = puts[1].value
  /\ store[puts[3].key] = puts[3].value

(***************************************************************************)
(* C4: when dfa2map has finished, what it hands to its caller tells        *)
(* whether any write failed (a caller can tell a full table from a partial *)
(* one).                                                                   *)
(***************************************************************************)
C4_SummaryReportsFailures ==
  pc = "returned" => ((ret = 0) <=> (FailedPuts = {}))

(***************************************************************************)
(* C5: an automaton with two transitions from one state on the same symbol *)
(* is rejected: no put is attempted, dfa2map reports an error and the run  *)
(* does not end in success.                                                *)
(***************************************************************************)
C5_NondeterministicRejected ==
  Nondeterministic =>
    /\ puts = << >>
    /\ pc = "returned" => ret < 0
    /\ pc = "exit" => status # "EXIT_OK"

(***************************************************************************)
(* C6: no state ID is written into a key or a value truncated: every ID    *)
(* written is the canonical ID of the state it stands for, so that two     *)
(* states never share a written ID (an automaton with more states than the *)
(* ID width holds is rejected before any put).                             *)
(***************************************************************************)
C6_NoTruncatedId ==
  \A k \in DOMAIN puts :
    /\ puts[k].key.state = ExpectedPut(k).key.state
    /\ puts[k].value.state = ExpectedPut(k).value.state

(***************************************************************************)
(* C7: at every put all enumerated states carry their canonical ID, the    *)
(* source and the target of the transition among them, and no step of the  *)
(* conversion loop changes an ID any more.                                 *)
(***************************************************************************)
C7_IdsFinalAtEveryPut ==
  /\ [][Len(puts') = Len(puts) + 1 =>
          LET s == StateAt(state_list, i_state)
              t == Deref(heap, s).trans[i_trans + 1].to
          IN /\ \A i \in 1..state_list.length : Deref(heap, StateAt(state_list, i - 1)).state_id = i - 1
             /\ Deref(heap, s).state_id = CanonicalId(s)
             /\ Deref(heap, t).state_id = CanonicalId(t)]_vars
  /\ [][pc = "convert" => heap' = heap]_vars

\* the first put is for a transition to a state that comes later in enumeration order
C7_Witness ==
  /\ pc = "convert"
  /\ Len(puts) = 1
  /\ Position(Deref(heap, StateAt(state_list, 0)).trans[1].to) > 1
  /\ puts[1].value.state = Position(Deref(heap, StateAt(state_list, 0)).trans[1].to) - 1

(***************************************************************************)
(* C8: once open_bpf_map_file has returned a negative descriptor the run   *)
(* is over with a failure status: no automaton is built, none enumerated,  *)
(* no put attempted.                                                       *)
(***************************************************************************)
C8_BadHandleRejected ==
  (pc # "open_map" /\ map_fd < 0) =>
    /\ pc = "exit"
    /\ status = "EXIT_FAIL_BPF"
    /\ dfa = NULL
    /\ heap = << >>
    /\ state_list = EmptyList
    /\ puts = << >>
    /\ store = EmptyStore
    /\ runs = 0

\* the map could not be opened and main is over
C8_Witness == pc = "exit" /\ map_fd < 0 /\ status = "EXIT_FAIL_BPF"

(***************************************************************************)
(* C9 as stated: no step after re2dfa changes any field of any state.      *)
(***************************************************************************)
C9_GraphUntouched == [][pc # "re2dfa" => heap' = heap]_vars

(***************************************************************************)
(* C9 as amended: no step after re2dfa changes the states there are, an    *)
(* accepting flag or a transition list; the only field written is the      *)
(* state_id of enumerated states, by the ID loop.                          *)
(***************************************************************************)
C9_OnlyStateIdWritten ==
  [][pc # "re2dfa" =>
       /\ SameGraph(heap, heap')
       /\ pc # "assign" => heap' = heap
       /\ \A a \in Addresses(heap) :
            (\A i \in 1..state_list.length : StateAt(state_list, i - 1) # a) => Deref(heap', a) = Deref(heap, a)]_vars

\* the ID loop has overwritten the state_id of a state
C9_Witness ==
  /\ pc = "convert"
  /\ runs = 1
  /\ n_state >= 2
  /\ Deref(heap, StateAt(state_list, 1)).state_id = 1
  /\ Deref(heap, StateAt(state_list, 1)).state_id \notin InitialIds

====
